---- MODULE Spec2Model ----
(***************************************************************************)
(* Model of app1.py: the console menu that holds the session (m, n, A, b,  *)
(* decimales) and the numerical core estado_matriz / resolver_sistema.     *)
(*                                                                         *)
(* Numbers.  An entry of A, b or x is a float: NaN or a finite value; the  *)
(* finite values of the model are small integers, on which the float       *)
(* arithmetic of the residual is exact.  A singular value is a             *)
(* non-negative float, 0 or 2^e with 2^e a normal double, so that the      *)
(* products and quotients estado_matriz forms are exact or overflow.       *)
(* The numpy routines (svd, solve, lstsq) are not part of the source: each *)
(* is the set of outcomes its contract allows, and the decomposition is    *)
(* not computed from the entries, which stand for any finite doubles.      *)
(***************************************************************************)
EXTENDS Integers, Naturals, Sequences, FiniteSets, TLC

\* Largest integer typed at a leer_entero_positivo prompt, and the largest
\* number of tokens typed on one input line.
MaxEntero == 2

\* ------------------------------------------------------------------------
\* Floats of the entries: NaN or a finite value v.
\* ------------------------------------------------------------------------
NaN == [nan |-> TRUE, v |-> 0]

Fin(k) == [nan |-> FALSE, v |-> k]

IsFinite(a) == ~a.nan

FMul(a, c) == IF a.nan \/ c.nan THEN NaN ELSE Fin(a.v * c.v)

FAdd(a, c) == IF a.nan \/ c.nan THEN NaN ELSE Fin(a.v + c.v)

FSub(a, c) == IF a.nan \/ c.nan THEN NaN ELSE Fin(a.v - c.v)

\* ------------------------------------------------------------------------
\* Text typed by the user.  A token is a sequence of characters.
\* ------------------------------------------------------------------------
Tokens == { <<"2", ",", "0">>, <<"n", "a", "n">>, <<"a", "b", "c">> }

\* str.replace(',', '.')
ReplaceComma(tok) == [i \in DOMAIN tok |-> IF tok[i] = "," THEN "." ELSE tok[i]]

\* float(s): the literals of the model that Python's float() accepts, with
\* their values; every other text raises ValueError.
FloatLiterals == { <<"2", ".", "0">>, <<"n", "a", "n">> }

FloatValue(lit) == IF lit = <<"2", ".", "0">> THEN Fin(2) ELSE NaN

\* _to_float: [ok |-> FALSE] stands for the ValueError float() raises.
to_float(tok) ==
    LET t == ReplaceComma(tok)
    IN  IF t \in FloatLiterals
        THEN [ok |-> TRUE, val |-> FloatValue(t)]
        ELSE [ok |-> FALSE, val |-> NaN]

\* The list comprehension [_to_float(x) for x in ....split()]: the values,
\* or ValueError as soon as one token does not parse.
ParseTokens(linea) ==
    IF \A i \in DOMAIN linea : to_float(linea[i]).ok
    THEN [ok |-> TRUE, vals |-> [i \in DOMAIN linea |-> to_float(linea[i]).val]]
    ELSE [ok |-> FALSE, vals |-> <<>>]

\* The lines a user may type at a row or vector prompt.
Lineas == UNION { [1..k -> Tokens] : k \in 0..MaxEntero }

\* What may be typed at a leer_entero_positivo prompt: an integer literal
\* (num) or text int() rejects.
EntradasEnteras ==
    { [num |-> TRUE, v |-> k] : k \in (-1)..MaxEntero } \cup { [num |-> FALSE, v |-> 0] }

\* leer_entero_positivo, the test of one pass of its loop: int() parses the
\* text and the value is > 0; otherwise ValueError and the prompt again.
EnteroAceptado(e) == e.num /\ ~(e.v <= 0)

\* leer_entero_positivo: the values it can return.
leer_entero_positivo == { e.v : e \in { i \in EntradasEnteras : EnteroAceptado(i) } }

\* leer_matriz, the test of one row: every token parses and there are
\* exactly nn values; otherwise ValueError and the prompt again.
FilaAceptada(linea, nn) == ParseTokens(linea).ok /\ ~(Len(ParseTokens(linea).vals) # nn)

\* leer_matriz(m, n): the arrays it can return, one accepted row per i.
leer_matriz(mm, nn) ==
    [1..mm -> { ParseTokens(l).vals : l \in { k \in Lineas : FilaAceptada(k, nn) } }]

\* The values a line of leer_vector can add to valores.
ValoresAceptados == { to_float(tok).val : tok \in { k \in Tokens : to_float(k).ok } }

\* leer_vector(m): valores grows by the lines that parse until it holds at
\* least mm values; the array returned is valores[:m].
leer_vector(mm) ==
    { SubSeq(valores_, 1, mm) :
        valores_ \in UNION { [1..k -> ValoresAceptados] : k \in mm..(mm + MaxEntero - 1) } }

\* ------------------------------------------------------------------------
\* Floats of the singular values: 0 or 2^e (a normal double), ordered.
\* ------------------------------------------------------------------------
\* np.finfo(float).eps = 2^EpsExp
EpsExp == -52

\* A double overflows to inf from 2^OverflowExp on.
OverflowExp == 1024

SCero == [z |-> TRUE, e |-> 0]

P2(e) == [z |-> FALSE, e |-> e]

\* The exponents of the singular values the decomposition may return.
ExpSet == {1023, 0, -1, -50, -51}

SVals == {SCero} \cup { P2(e) : e \in ExpSet }

SVGeq(a, c) == c.z \/ (~a.z /\ a.e >= c.e)

\* 2^d > c for an integer d and an integer c >= 1.
Pow2Gt(d, c) == IF d < 0 THEN FALSE ELSE IF d >= 30 THEN TRUE ELSE 2^d > c

Min(a, c) == IF a <= c THEN a ELSE c

Max(a, c) == IF a >= c THEN a ELSE c

Rows(M) == Len(M)

Cols(M) == Len(M[1])

AllFinite(M) == \A i \in DOMAIN M : \A j \in DOMAIN M[i] : IsFinite(M[i][j])

\* The descending sequences of k singular values.
SVSeqs(k) ==
    { sv \in [1..k -> SVals] : \A i \in 1..(k - 1) : SVGeq(sv[i], sv[i + 1]) }

\* np.linalg.svd(M, full_matrices=False), the singular values only:
\* min(m,n) values in descending order, or LinAlgError ("SVD did not
\* converge", ok = FALSE) on a matrix holding a NaN.
SVD(M) ==
    IF ~AllFinite(M)
    THEN { [ok |-> FALSE, s |-> <<>>] }
    ELSE { [ok |-> TRUE, s |-> sv] : sv \in SVSeqs(Min(Rows(M), Cols(M))) }

\* The tolerance as a fixed epsilon, not scaled by the largest value.
TolMutAbsoluta(mm, nn, sv) ==
    IF Len(sv) = 0 \/ sv[1].z
    THEN [z |-> TRUE, c |-> 0, e |-> 0]
    ELSE [z |-> FALSE, c |-> Max(mm, nn), e |-> EpsExp]

\* tol = max(m, n) * eps * (s[0] if s.size else 0.0), the float c * 2^e.
Tol(mm, nn, sv) ==
    IF Len(sv) = 0 \/ sv[1].z
    THEN [z |-> TRUE, c |-> 0, e |-> 0]
    ELSE [z |-> FALSE, c |-> Max(mm, nn), e |-> sv[1].e + EpsExp]

\* 2^d >= c for an integer d and an integer c >= 1.
Pow2Geq(d, c) == IF d < 0 THEN FALSE ELSE IF d >= 30 THEN TRUE ELSE 2^d >= c

\* The comparison with >= in place of >.
SVGtMutGeq(a, tol) ==
    IF tol.z THEN TRUE
    ELSE IF a.z THEN FALSE
    ELSE Pow2Geq(a.e - tol.e, tol.c)

\* One element of the comparison s > tol.
SVGt(a, tol) ==
    IF a.z THEN FALSE
    ELSE IF tol.z THEN TRUE
    ELSE Pow2Gt(a.e - tol.e, tol.c)

\* rango = int((s > tol).sum())
Rango(sv, tol) == Cardinality({ i \in DOMAIN sv : SVGt(sv[i], tol) })

CondInf == [inf |-> TRUE, e |-> 0]

\* cond with the test of the smallest singular value left out.
CondMutNoTest(sv) ==
    IF Len(sv) > 0 /\ sv[1].e - sv[Len(sv)].e < OverflowExp
    THEN [inf |-> FALSE, e |-> sv[1].e - sv[Len(sv)].e]
    ELSE CondInf

\* cond = (s[0] / s[-1]) if (s.size > 0 and s[-1] > 0) else np.inf
\* The quotient 2^e1 / 2^ek is 2^(e1-ek), or inf when it overflows.
Cond(sv) ==
    IF Len(sv) > 0 /\ ~sv[Len(sv)].z
    THEN IF sv[1].e - sv[Len(sv)].e >= OverflowExp
         THEN CondInf
         ELSE [inf |-> FALSE, e |-> sv[1].e - sv[Len(sv)].e]
    ELSE CondInf

\* estado_matriz(A), after the decomposition returned the values sv.
estado_matriz(M, sv) ==
    LET mm == Rows(M)
        nn == Cols(M)
        tol == Tol(mm, nn, sv)
        rango == Rango(sv, tol)
    IN  [m |-> mm, n |-> nn, rank |-> rango, cond |-> Cond(sv),
         singular |-> rango < Min(mm, nn)]

EstNone == [m |-> 0, n |-> 0, rank |-> 0, cond |-> CondInf, singular |-> FALSE]

\* ------------------------------------------------------------------------
\* Linear algebra on the entries.
\* ------------------------------------------------------------------------
RECURSIVE Dot(_, _, _)
\* The sum of fila[j] * xv[j] for j in 1..k.
Dot(fila, xv, k) ==
    IF k = 0 THEN Fin(0) ELSE FAdd(Dot(fila, xv, k - 1), FMul(fila[k], xv[k]))

\* r = A @ x - b
Residuo(M, xv, bv) == [i \in DOMAIN M |-> FSub(Dot(M[i], xv, Len(xv)), bv[i])]

RECURSIVE SumSq(_, _)
SumSq(r, k) == IF k = 0 THEN 0 ELSE SumSq(r, k - 1) + r[k].v * r[k].v

ResiduoNone == [none |-> TRUE, nan |-> FALSE, sq |-> 0]

\* float(np.linalg.norm(r)): NaN when r holds a NaN, else the square root
\* of the sum of squares, kept as its radicand sq.
Norm(r) ==
    IF \E i \in DOMAIN r : r[i].nan
    THEN [none |-> FALSE, nan |-> TRUE, sq |-> 0]
    ELSE [none |-> FALSE, nan |-> FALSE, sq |-> SumSq(r, Len(r))]

VecFinite(v) == \A i \in DOMAIN v : IsFinite(v[i])

\* The solutions a routine may hand back for n unknowns and right-hand side
\* bv: finite for a finite bv, holding a NaN otherwise.
XOut(nn, bv) ==
    IF VecFinite(bv)
    THEN [1..nn -> {Fin(0), Fin(1)}]
    ELSE { xv \in [1..nn -> {Fin(0), Fin(1), NaN}] : \E j \in 1..nn : xv[j].nan }

\* np.linalg.solve(A, b): a solution, or LinAlgError (ok = FALSE) for a
\* matrix that is not square or for which the factorization meets a zero
\* pivot.
Solve(M, bv) ==
    { [ok |-> FALSE, x |-> <<>>] }
    \cup (IF Rows(M) = Cols(M)
          THEN { [ok |-> TRUE, x |-> xv] : xv \in XOut(Cols(M), bv) }
          ELSE {})

\* np.linalg.lstsq(A, b, rcond=None): a solution; with a NaN in b the
\* routine returns NaNs or reports non-convergence (LinAlgError).
Lstsq(M, bv) ==
    { [ok |-> TRUE, x |-> xv] : xv \in XOut(Cols(M), bv) }
    \cup (IF VecFinite(bv) THEN {} ELSE { [ok |-> FALSE, x |-> <<>>] })

InfoNone == [metodo |-> "None", mensaje |-> "None", residuo_norma2 |-> ResiduoNone]

\* The branch test with the rank left out.
RamaExactaMutSinRango(mm, nn, e) == mm = nn

\* if m == n and est["rank"] == n
RamaExacta(mm, nn, e) == mm = nn /\ e.rank = nn

\* r = A @ x - b; float(np.linalg.norm(r))
ResiduoDe(M, xv, bv) == Norm(Residuo(M, xv, bv))

\* info.update({...}); return x, info
Retorno(xv, e, sv, metodo, mensaje, res, tr) ==
    [exc |-> FALSE, x |-> xv, est |-> e, s |-> sv, traza |-> tr,
     info |-> [metodo |-> metodo, mensaje |-> mensaje, residuo_norma2 |-> res]]

\* An exception leaving resolver_sistema.
Excepcion(tr) ==
    [exc |-> TRUE, x |-> <<>>, est |-> EstNone, s |-> <<>>, traza |-> tr, info |-> InfoNone]

\* The least-squares part of resolver_sistema (lines 99-102).
RamaLstsq(M, bv, e, sv, tr) ==
    { IF l.ok
      THEN Retorno(l.x, e, sv, "lstsq", "Solucion por minimos cuadrados",
                   ResiduoDe(M, l.x, bv), Append(tr, "lstsq"))
      ELSE Excepcion(Append(tr, "lstsq:LinAlgError"))
      : l \in Lstsq(M, bv) }

\* resolver_sistema(A, b): every outcome of the call, one per outcome of the
\* library routines it uses.
resolver_sistema(M, bv) ==
    LET mm == Rows(M)
        nn == Cols(M)
    IN  UNION {
          IF ~d.ok THEN { Excepcion(<<"resolver_sistema", "svd:LinAlgError">>) }
          ELSE LET e == estado_matriz(M, d.s)
               IN  IF RamaExacta(mm, nn, e)
                   THEN UNION {
                          IF so.ok
                          THEN { Retorno(so.x, e, d.s, "solve", "Solucion unica",
                                         ResiduoDe(M, so.x, bv), <<"resolver_sistema", "svd", "solve">>) }
                          ELSE RamaLstsq(M, bv, e, d.s, <<"resolver_sistema", "svd", "solve:LinAlgError">>)
                          : so \in Solve(M, bv) }
                   ELSE RamaLstsq(M, bv, e, d.s, <<"resolver_sistema", "svd">>)
          : d \in SVD(M) }

\* ------------------------------------------------------------------------
\* The menu (menu(), lines 111-201).  One action per option: the handler
\* from the option typed until the menu is shown again, the prompts of its
\* readers included.  Options 4 and 5 stand at "resultado" and "detalles"
\* when the core has returned and its values are about to be printed.
\* ------------------------------------------------------------------------
VARIABLES
    pc,         \* "menu": waiting for an option; "resultado", "detalles":
                \* the core returned to option 4 or 5; "crash": ended by
                \* an exception nobody catches; "fin": ended by option 0
    m, n,       \* the dimensions; None before option 1 or 8
    A, b,       \* the matrix and the vector; None when not entered
    decimales,  \* decimals of the output
    rechazo,    \* the refusal the last option printed, "" when none
    x, info,    \* option 4: what resolver_sistema returned
    est, s,     \* options 4 and 5: the diagnostics and the singular values
    traza       \* options 4 and 5: the core function called and the
                \* library calls it made

vars == <<pc, m, n, A, b, decimales, rechazo, x, info, est, s, traza>>

sesion == <<m, n, A, b, decimales>>

\* None of m and n (a dimension is an integer > 0), and of A and b.
NoDim == 0

None == <<>>

\* x, info and est are read only by the handler that binds them; every
\* other handler leaves them cleared.
LocalsNone ==
    /\ x' = None
    /\ info' = InfoNone
    /\ est' = EstNone
    /\ s' = None
    /\ traza' = <<>>

Init ==
    /\ pc = "menu"
    /\ m = NoDim
    /\ n = NoDim
    /\ A = None
    /\ b = None
    /\ decimales = 3
    /\ rechazo = ""
    /\ x = None
    /\ info = InfoNone
    /\ est = EstNone
    /\ s = None
    /\ traza = <<>>

\* What option 1 leaves in A and b with them kept.
TrasDimensionesMutConserva(Aold, bold) == <<Aold, bold>>

\* A = b = None (line 138)
TrasDimensiones(Aold, bold) == <<None, None>>

\* op == "1" (lines 135-139)
Opcion1 ==
    /\ pc = "menu"
    /\ m' \in leer_entero_positivo
    /\ n' \in leer_entero_positivo
    /\ A' = TrasDimensiones(A, b)[1]
    /\ b' = TrasDimensiones(A, b)[2]
    /\ rechazo' = ""
    /\ LocalsNone
    /\ UNCHANGED <<pc, decimales>>

\* op == "2" (lines 141-146): refuse without dimensions, else leer_matriz.
Opcion2 ==
    /\ pc = "menu"
    /\ IF m = NoDim \/ n = NoDim
       THEN /\ rechazo' = "Define dimensiones primero."
            /\ UNCHANGED A
       ELSE /\ A' \in leer_matriz(m, n)
            /\ rechazo' = ""
    /\ LocalsNone
    /\ UNCHANGED <<pc, m, n, b, decimales>>

\* op == "3" (lines 148-153): refuse without m, else leer_vector.
Opcion3 ==
    /\ pc = "menu"
    /\ IF m = NoDim
       THEN /\ rechazo' = "Define dimensiones primero."
            /\ UNCHANGED b
       ELSE /\ b' \in leer_vector(m)
            /\ rechazo' = ""
    /\ LocalsNone
    /\ UNCHANGED <<pc, m, n, A, decimales>>

\* The first test of option 4 with b left out.
FaltaAoBMutSoloA(Ax, bx) == Ax = None

\* if A is None or b is None (line 156)
FaltaAoB(Ax, bx) == Ax = None \/ bx = None

\* if b.shape[0] != A.shape[0] (line 159)
Incompatibles(Ax, bx) == Len(bx) # Len(Ax)

\* op == "4" (lines 155-162): the two refusals, else the call of
\* resolver_sistema; an exception it raises is caught nowhere and ends the
\* program.
Opcion4 ==
    /\ pc = "menu"
    /\ IF FaltaAoB(A, b)
       THEN /\ rechazo' = "Falta A o b."
            /\ LocalsNone
            /\ UNCHANGED pc
       ELSE IF Incompatibles(A, b)
       THEN /\ rechazo' = "Dimensiones incompatibles."
            /\ LocalsNone
            /\ UNCHANGED pc
       ELSE \E o \in resolver_sistema(A, b) :
              /\ x' = o.x
              /\ info' = o.info
              /\ est' = o.est
              /\ s' = o.s
              /\ traza' = o.traza
              /\ rechazo' = ""
              /\ pc' = IF o.exc THEN "crash" ELSE "resultado"
    /\ UNCHANGED sesion

\* Lines 163-166: the result is printed and the menu shown again.
ImprimirResultado ==
    /\ pc = "resultado"
    /\ pc' = "menu"
    /\ LocalsNone
    /\ UNCHANGED <<sesion, rechazo>>

\* op == "5" (lines 168-172): refuse without A, else estado_matriz(A).
Opcion5 ==
    /\ pc = "menu"
    /\ IF A = None
       THEN /\ rechazo' = "Ingresa A."
            /\ LocalsNone
            /\ UNCHANGED pc
       ELSE \E d \in SVD(A) :
              /\ est' = IF d.ok THEN estado_matriz(A, d.s) ELSE EstNone
              /\ s' = d.s
              /\ x' = None
              /\ info' = InfoNone
              /\ traza' = IF d.ok THEN <<"estado_matriz", "svd">>
                                 ELSE <<"estado_matriz", "svd:LinAlgError">>
              /\ rechazo' = ""
              /\ pc' = IF d.ok THEN "detalles" ELSE "crash"
    /\ UNCHANGED sesion

\* Lines 173-178: the diagnostics are printed and the menu shown again.
ImprimirDetalles ==
    /\ pc = "detalles"
    /\ pc' = "menu"
    /\ LocalsNone
    /\ UNCHANGED <<sesion, rechazo>>

\* op == "6" (lines 180-185)
Opcion6 ==
    /\ pc = "menu"
    /\ rechazo' = ""
    /\ LocalsNone
    /\ UNCHANGED <<pc, sesion>>

\* op == "7" (lines 187-189)
Opcion7 ==
    /\ pc = "menu"
    /\ decimales' \in leer_entero_positivo
    /\ rechazo' = ""
    /\ LocalsNone
    /\ UNCHANGED <<pc, m, n, A, b>>

\* op == "8" (lines 191-195)
Opcion8 ==
    /\ pc = "menu"
    /\ m' = 2
    /\ n' = 2
    /\ A' = << <<Fin(2), Fin(1)>>, <<Fin(5), Fin(7)>> >>
    /\ b' = <<Fin(11), Fin(13)>>
    /\ rechazo' = ""
    /\ LocalsNone
    /\ UNCHANGED <<pc, decimales>>

\* op == "0" (lines 197-199)
Opcion0 ==
    /\ pc = "menu"
    /\ pc' = "fin"
    /\ rechazo' = ""
    /\ LocalsNone
    /\ UNCHANGED sesion

\* Any other text (lines 200-201)
OpcionInvalida ==
    /\ pc = "menu"
    /\ rechazo' = "Opcion invalida."
    /\ LocalsNone
    /\ UNCHANGED <<pc, sesion>>

Next ==
    \/ Opcion1
    \/ Opcion2
    \/ Opcion3
    \/ Opcion4
    \/ ImprimirResultado
    \/ Opcion5
    \/ ImprimirDetalles
    \/ Opcion6
    \/ Opcion7
    \/ Opcion8
    \/ Opcion0
    \/ OpcionInvalida

Spec == Init /\ [][Next]_vars

\* ------------------------------------------------------------------------
\* Properties.
\* ------------------------------------------------------------------------
\* resolver_sistema has returned to option 4.
Retornado == pc = "resultado"

\* estado_matriz has returned, to option 5 or inside resolver_sistema.
Diagnosticado == pc \in {"resultado", "detalles"}

SolveFallo == \E i \in DOMAIN traza : traza[i] = "solve:LinAlgError"

\* C1: whenever resolver_sistema returns, the method is "solve" with the
\* unique-solution message exactly when A is square, the diagnosed rank is
\* n and the direct solve did not fail; in every other case it is "lstsq"
\* with the least-squares message; neither is ever None.
C1_MetodoPorRama ==
    Retornado =>
        LET exacta == Rows(A) = Cols(A) /\ est.rank = Cols(A) /\ ~SolveFallo
        IN  /\ info.metodo \in {"solve", "lstsq"}
            /\ info.metodo = "solve" <=> exacta
            /\ info.metodo = "solve" => info.mensaje = "Solucion unica"
            /\ info.metodo = "lstsq" => info.mensaje = "Solucion por minimos cuadrados"
            /\ ~info.residuo_norma2.none

\* A square matrix of deficient rank, solved by least squares.
C1_Witness ==
    Retornado /\ Rows(A) = Cols(A) /\ est.rank < Cols(A) /\ info.metodo = "lstsq"

\* C2: no call of resolver_sistema ends by an exception.
C2_NuncaLanza == ~(pc = "crash" /\ traza # <<>> /\ traza[1] = "resolver_sistema")

\* The square of the Euclidean norm of A.x - b, entry by entry.
NormaCuadrada ==
    LET fila(i) == Dot(A[i], x, Len(x))
        r(i) == fila(i).v - b[i].v
        sq[i \in 0..Len(A)] == IF i = 0 THEN 0 ELSE sq[i - 1] + r(i) * r(i)
    IN  sq[Len(A)]

\* C3: whenever resolver_sistema returns, residuo_norma2 is a non-negative
\* real, the Euclidean norm of A.x - b for the x returned and the A and b
\* passed in.
C3_ResiduoDeLaSolucion ==
    Retornado =>
        /\ ~info.residuo_norma2.none
        /\ ~info.residuo_norma2.nan
        /\ info.residuo_norma2.sq >= 0
        /\ VecFinite(x)
        /\ info.residuo_norma2.sq = NormaCuadrada

\* s[i] > max(m,n) * eps * s[1], as 2^52 * s[i] > max(m,n) * s[1].
Excede(i) ==
    LET mx == Max(Rows(A), Cols(A))
        d == s[i].e - s[1].e - EpsExp
    IN  ~s[i].z /\ d > 0 /\ (d > 8 \/ 2^d > mx)

\* C4: whenever estado_matriz returns, rank is the number of singular values
\* strictly greater than tol = max(m,n)*eps*s1 (they are the first rank
\* ones; none when s1 = 0), 0 <= rank <= min(m,n), and singular is true
\* exactly when rank < min(m,n).
C4_RangoPorTolerancia ==
    Diagnosticado =>
        LET k == Min(Rows(A), Cols(A))
        IN  /\ Len(s) = k
            /\ est.rank = Cardinality({ i \in 1..k : Excede(i) })
            /\ \A i \in 1..k : Excede(i) <=> i <= est.rank
            /\ est.rank >= 0 /\ est.rank <= k
            /\ s[1].z => est.rank = 0
            /\ est.singular <=> est.rank < k

\* A positive singular value that the tolerance does not count.
C4_Witness ==
    Diagnosticado /\ Len(s) = 2 /\ est.rank = 1 /\ ~s[2].z /\ est.singular

\* C5 as claimed: the condition number is infinite exactly when the
\* smallest singular value is 0, and otherwise finite and >= 1.
C5_InfinitoSoloConCero ==
    Diagnosticado =>
        /\ est.cond.inf <=> s[Len(s)].z
        /\ ~est.cond.inf => est.cond.e >= 0

\* C5 amended: the condition number is infinite exactly when the smallest
\* singular value is 0 or the quotient s1/sk overflows the double range;
\* otherwise it is s1/sk, finite and >= 1; it is finite whenever the matrix
\* is reported of full rank.
C5_InfinitoConCeroODesborde ==
    Diagnosticado =>
        LET sk == s[Len(s)]
        IN  /\ est.cond.inf <=> (sk.z \/ s[1].e - sk.e >= OverflowExp)
            /\ ~est.cond.inf =>
                 /\ est.cond.e = s[1].e - sk.e
                 /\ est.cond.e >= 0
                 /\ est.cond.e < OverflowExp
            /\ ~est.singular => ~est.cond.inf

\* The quotient of two positive singular values overflowed.
C5_Witness ==
    Diagnosticado /\ est.cond.inf /\ ~s[Len(s)].z

\* C6: resolver_sistema is called only with A and b defined, as many rows
\* in b as in A and both dimensions >= 1; option 4 refuses a missing A or b
\* and a row mismatch without calling it, and a refusal leaves m, n, A, b
\* and decimales as they were.
C6_PrecondicionDeResolver ==
    [][ /\ (traza' # <<>> /\ traza'[1] = "resolver_sistema") =>
             /\ A # None /\ b # None
             /\ Len(b) = Len(A)
             /\ Len(A) >= 1
             /\ \A i \in DOMAIN A : Len(A[i]) >= 1 /\ Len(A[i]) = Len(A[1])
             /\ sesion' = sesion
        /\ rechazo' \in {"Falta A o b.", "Dimensiones incompatibles."} =>
             /\ sesion' = sesion
             /\ traza' = <<>>
             /\ pc' = "menu"
        /\ rechazo' = "Falta A o b." => (A = None \/ b = None)
        /\ rechazo' = "Dimensiones incompatibles." =>
             (A # None /\ b # None /\ Len(b) # Len(A))
      ]_vars

\* Option 4 refused for a missing vector, the matrix being entered.
C6_Witness == rechazo = "Falta A o b." /\ A # None /\ b = None

\* C7: every entry of A and of b is a finite number.
C7_EntradasFinitas ==
    /\ (A # None => AllFinite(A))
    /\ (b # None => VecFinite(b))

\* The shapes agree with the dimensions.
FormasCoherentes ==
    /\ A # None => (m # NoDim /\ n # NoDim /\ Len(A) = m /\ \A i \in DOMAIN A : Len(A[i]) = n)
    /\ b # None => (m # NoDim /\ Len(b) = m)
    /\ rechazo # "Dimensiones incompatibles."

\* C9: a defined A is m x n and a defined b has m rows, in the first state
\* and after every step; whenever the dimensions change, A and b are
\* cleared unless the step loads the example; the refusal "Dimensiones
\* incompatibles" is never printed.
C9_FormasCoherentes ==
    /\ FormasCoherentes
    /\ [][ /\ FormasCoherentes'
           /\ (m' # m \/ n' # n) =>
                \/ A' = None /\ b' = None
                \/ A' = << <<Fin(2), Fin(1)>>, <<Fin(5), Fin(7)>> >> /\ b' = <<Fin(11), Fin(13)>>
         ]_vars

\* A non-square matrix and its vector, entered after the dimensions.
C9_Witness == A # None /\ b # None /\ m = 1 /\ n = 2

\* C10: whenever estado_matriz reports an infinite condition number it
\* reports singular, and resolver_sistema never returns by the exact branch
\* with an infinite condition number.
C10_InfinitoImplicaSingular ==
    Diagnosticado =>
        /\ est.cond.inf => est.singular
        /\ info.metodo = "solve" => ~est.cond.inf

\* The converse fails: singular with a finite condition number.
C10_Witness == Diagnosticado /\ est.singular /\ ~est.cond.inf

====
